---- MODULE Spec2Model ----
(***************************************************************************)
(* goal-app API server: the goal controller, the user controller, the      *)
(* authentication middleware and the centralized error handler, over the   *)
(* two database collections (users, goals); and the client's session       *)
(* context over the browser's localStorage.                                *)
(*                                                                         *)
(* A request handler is an async function: it runs without interruption    *)
(* up to each database call it awaits, so a handler is one action per      *)
(* database call, and the handlers of the connections interleave at those  *)
(* calls.  `last` is the HTTP exchange (request and response) that the     *)
(* latest handler step completed, until the client has received it; a      *)
(* database write and the response that follows it are one step, so `last` *)
(* always describes the step that produced the current collections.        *)
(***************************************************************************)
EXTENDS Integers, Sequences, FiniteSets, TLC

VARIABLES users, goals, nextGoalId, nextUserId, now, client, conn, last

vars == <<users, goals, nextGoalId, nextUserId, now, client, conn, last>>

(* ------------------------------ bounds --------------------------------- *)

\* goals created in one behaviour (ObjectIds handed out by the database)
MaxGoals == 2
\* users registered in one behaviour
MaxUsers == 2
\* milliseconds the clock advances in one behaviour
MaxTime == 2
\* notifications in the list at one time
MaxNotifications == 2
\* seconds the browser's clock advances while notifications are shown
MaxSeconds == 6

\* handlers of the Dashboard started by the user in one behaviour
MaxCalls == 3

Conns == DOMAIN conn

(* ------------------------------ values --------------------------------- *)

Has(obj, field) == field \in DOMAIN obj

\* A JSON object with no fields.
EmptyObject == [f \in {} |-> TRUE]

\* JavaScript's null, as a response body or a query result.
Null == [null |-> TRUE]

\* A string is a sequence of runs of one character (run-length encoded), so
\* that a text of 1001 characters is one run.
Run(c, k) == [ch |-> c, n |-> k]

RECURSIVE TextLen(_)
TextLen(t) == IF t = <<>> THEN 0 ELSE Head(t).n + TextLen(Tail(t))

RECURSIVE TrimStart(_)
TrimStart(t) ==
  IF t = <<>> THEN <<>>
  ELSE IF Head(t).ch = " " THEN TrimStart(Tail(t)) ELSE t

RECURSIVE TrimEnd(_)
TrimEnd(t) ==
  IF t = <<>> THEN <<>>
  ELSE IF t[Len(t)].ch = " " THEN TrimEnd(SubSeq(t, 1, Len(t) - 1)) ELSE t

\* String.prototype.trim, as mutated by forgetting it.
TrimNothing(t) == t

\* String.prototype.trim
Trim(t) == TrimEnd(TrimStart(t))

\* a string is truthy when it is not empty
Truthy(t) == t # <<>>

UserId(k) == "u" \o ToString(k)
ObjectId(k) == "g" \o ToString(k)

\* mongoose.Types.ObjectId.isValid: the well-formed ids are the ObjectIds the
\* database hands out, and one more that names no goal.
ObjectIdIsValid(id) == id \in {ObjectId(k) : k \in 1..(MaxGoals + 1)}

(* ------------------------- tokens and passwords ------------------------ *)

\* process.env.JWT_SECRET
JWT_SECRET == "server-secret"

\* expiresIn: "2h", in seconds
ExpiresIn == 2 * 60 * 60

\* jwt.sign({id}, JWT_SECRET, {expiresIn}): a token names the user and who
\* signed it, and carries the second it was issued (iat) and the second it
\* expires (exp).  A client may present a token hours after the milliseconds
\* of a behaviour, so whether exp has passed when the token is presented is
\* the token's field `expired`.
generateToken(id) ==
  [id |-> id, sig |-> JWT_SECRET,
   iat |-> now \div 1000, exp |-> (now \div 1000) + ExpiresIn,
   expired |-> FALSE]

\* jwt.verify as mutated by skipping the expiry check.
jwtVerifyIgnoringExpiry(token, secret) ==
  IF Has(token, "sig") /\ token.sig = secret
  THEN [ok |-> TRUE, id |-> token.id]
  ELSE [ok |-> FALSE]

\* jwt.verify(token, secret): throws (ok = FALSE) on an empty or malformed
\* token, on a signature made with another secret and on an expired token.
jwtVerify(token, secret) ==
  IF Has(token, "sig") /\ token.sig = secret /\ ~token.expired
  THEN [ok |-> TRUE, id |-> token.id]
  ELSE [ok |-> FALSE]

\* bcrypt.hash(password, 10)
bcryptHash(password) == [bcrypt |-> password]

\* bcrypt.compare(password, hash)
bcryptCompare(password, hash) == hash = bcryptHash(password)

(* ------------------------------ database ------------------------------- *)

\* Model.findById / findOne: the document, or null.
FindOne(coll, field, value) ==
  IF \E d \in coll : d[field] = value
  THEN CHOOSE d \in coll : d[field] = value
  ELSE Null

\* Query.select("-password")
SelectMinusPassword(doc) == [f \in (DOMAIN doc) \ {"password"} |-> doc[f]]

\* goalSchema text: maxlength
MaxLength == 1000

\* goalSchema's validators on a text value: the message of the
\* ValidationError, or "" when the value passes.
GoalTextValidationError(text) ==
  IF text = <<>> THEN "Goal validation failed: text: Please add a text value"
  ELSE IF TextLen(text) > MaxLength
       THEN "Goal validation failed: text: Goal text cannot exceed 1000 characters"
       ELSE ""

(* ---------------------------- error handler ---------------------------- *)

\* errorHandler as mutated by answering with res.statusCode as it is.
errorHandlerStatusAsIs(statusCode, message) ==
  [status |-> statusCode, message |-> message]

\* errorHandler(err, req, res): the status staged on the response, or 500
\* when it is still the default 200.
errorHandler(statusCode, message) ==
  [status |-> IF statusCode # 200 THEN statusCode ELSE 500, message |-> message]

(* ------------------------ authentication middleware -------------------- *)

\* verifyToken(req, res, next): ok with req.user, or the 401 it throws.  The
\* "user not found" error is thrown inside the try block, so the catch
\* replaces its message.
verifyToken(headers, db) ==
  IF ~Has(headers, "authorization") \/ headers.authorization.scheme # "Bearer"
  THEN [ok |-> FALSE, statusCode |-> 401,
        message |-> "Not authorized, no token provided"]
  ELSE LET decoded == jwtVerify(headers.authorization.token, JWT_SECRET) IN
       IF ~decoded.ok \/ FindOne(db, "_id", decoded.id) = Null
       THEN [ok |-> FALSE, statusCode |-> 401,
             message |-> "Not authorized, token invalid or expired"]
       ELSE [ok |-> TRUE,
             user |-> SelectMinusPassword(FindOne(db, "_id", decoded.id))]

(* ------------------------------ exchanges ------------------------------ *)

\* no response is on its way to a client
NoExchange == [req |-> [kind |-> "none"]]

Exchange(req, res) == [req |-> req, res |-> res]

Idle == [pc |-> "idle"]

\* connection s is free for a request
Accepting(s) ==
  /\ last = NoExchange
  /\ conn[s].pc = "idle"

\* the database call `call` that the handler of connection s awaits resolves
Awaiting(s, kind, call) ==
  /\ last = NoExchange
  /\ conn[s].pc = call
  /\ conn[s].req.kind = kind

\* the handler of connection s goes on to await `call`
Await(s, req, user, call) ==
  /\ conn' = [conn EXCEPT ![s] = [pc |-> call, req |-> req, user |-> user]]
  /\ last' = NoExchange

\* the handler of connection s ends the exchange with `res`
Respond(s, req, res) ==
  /\ conn' = [conn EXCEPT ![s] = Idle]
  /\ last' = Exchange(req, res)

(* --------------------------- goal controller --------------------------- *)

\* createGoal: the body has no usable text
createGoalTextMissing(body) ==
  \/ ~Has(body, "text")
  \/ ~Truthy(body.text)
  \/ Trim(body.text) = <<>>

\* createGoalDoc as mutated by taking the owner from the body when it names one.
createGoalDocTrustingBody(body, user, id) ==
  [_id |-> id,
   text |-> Trim(body.text),
   completed |-> IF Has(body, "completed") /\ body.completed THEN TRUE ELSE FALSE,
   user |-> IF Has(body, "user") THEN body.user ELSE user._id]

\* createGoal: the document handed to Goal.create
createGoalDoc(body, user, id) ==
  [_id |-> id,
   text |-> Trim(body.text),
   completed |-> IF Has(body, "completed") /\ body.completed THEN TRUE ELSE FALSE,
   user |-> user._id]

\* updateGoalNoFields as mutated by dropping the check.
updateGoalNoFieldsUnchecked(body) == FALSE

\* updateGoal: the body names no field to update
updateGoalNoFields(body) ==
  /\ ~Has(body, "text") \/ ~Truthy(body.text)
  /\ ~Has(body, "completed")

\* updateGoal / deleteGoal: goal.user.toString() !== req.user.id
NotOwner(goal, user) == goal.user # user._id

\* updateData as mutated by passing every field of the body on to the update.
updateDataWholeBody(body) ==
  [f \in DOMAIN body |-> IF f = "text" THEN Trim(body.text) ELSE body[f]]

\* updateGoal: updateData
updateData(body) ==
  [f \in {g \in {"text", "completed"} : Has(body, g)} |->
     IF f = "text" THEN Trim(body.text) ELSE body.completed]

\* Goal.findByIdAndUpdate's $set on a document
ApplyUpdate(doc, update) ==
  [f \in DOMAIN doc |-> IF f \in DOMAIN update THEN update[f] ELSE doc[f]]

\* goalSchema {timestamps: true} on save: createdAt and updatedAt are the time
\* of the insert
TimestampsOnCreate(doc, time) ==
  [f \in DOMAIN doc \cup {"createdAt", "updatedAt"} |->
     IF f \in {"createdAt", "updatedAt"} THEN time ELSE doc[f]]

\* TimestampsOnUpdate as mutated by stamping createdAt as well.
TimestampsOnUpdateAndCreate(update, time) ==
  [f \in DOMAIN update \cup {"createdAt", "updatedAt"} |->
     IF f \in {"createdAt", "updatedAt"} THEN time ELSE update[f]]

\* goalSchema {timestamps: true} on findOneAndUpdate: updatedAt is added to
\* the update's $set
TimestampsOnUpdate(update, time) ==
  [f \in DOMAIN update \cup {"updatedAt"} |->
     IF f = "updatedAt" THEN time ELSE update[f]]

\* goalData as mutated by reporting every goal as not completed.
goalDataNotCompleted(goal) ==
  [_id |-> goal._id, text |-> goal.text, completed |-> FALSE, user |-> goal.user]

\* deleteGoal: goalData
goalData(goal) ==
  [_id |-> goal._id, text |-> goal.text, completed |-> goal.completed,
   user |-> goal.user]

\* GoalFind as mutated by dropping the owner filter.
GoalFindAll(coll, user) == coll

\* Goal.find({user: req.user.id})
GoalFind(coll, user) == {g \in coll : g.user = user._id}

(* ------------------------------- inputs -------------------------------- *)

Email(k) == "user" \o ToString(k) \o "@example.com"

StrongPassword == <<"S", "e", "c", "u", "r", "e", "1", "!">>

\* the user document that registration stores
UserDoc(k, name, email, password) ==
  [_id |-> UserId(k), name |-> name, email |-> email,
   password |-> bcryptHash(password)]

\* tokens a client may present: none, garbage, signed with another secret,
\* expired, and the tokens the server issued (the last one to a user whose
\* record is gone)
Tokens ==
  {[raw |-> ""], [raw |-> "garbage"],
   [id |-> UserId(1), sig |-> "other-secret", expired |-> FALSE],
   [id |-> UserId(1), sig |-> JWT_SECRET, expired |-> TRUE]}
  \cup {generateToken(UserId(k)) : k \in 1..(MaxUsers + 1)}

Headers ==
  {EmptyObject,
   [authorization |-> [scheme |-> "Basic", token |-> generateToken(UserId(1))]]}
  \cup {[authorization |-> [scheme |-> "Bearer", token |-> t]] : t \in Tokens}

ParamIds == {"bad"} \cup {ObjectId(k) : k \in 1..(MaxGoals + 1)}

LongText == <<Run("a", MaxLength + 1)>>

PostBodies ==
  {EmptyObject,
   [text |-> <<>>],
   [text |-> <<Run(" ", 3)>>],
   [text |-> <<Run(" ", 2), Run("a", 1), Run(" ", 2)>>],
   [text |-> <<Run("b", 1)>>, completed |-> TRUE, user |-> UserId(2)],
   [text |-> LongText]}

PutBodies ==
  {EmptyObject,
   [user |-> UserId(2)],
   [text |-> <<>>],
   [text |-> <<>>, completed |-> TRUE],
   [text |-> <<Run(" ", 3)>>],
   [text |-> <<Run(" ", 1), Run("b", 1), Run(" ", 1)>>],
   [text |-> LongText],
   [completed |-> TRUE],
   [completed |-> FALSE],
   [text |-> <<Run("a", 1)>>, completed |-> TRUE, user |-> UserId(2)]}

(* ------------------------- client: session context -------------------- *)

\* the browser before the application is loaded: localStorage, and the
\* initial state of AuthProvider
AppNotLoaded(storage) ==
  [storage |-> storage, isAuthenticated |-> FALSE, user |-> Null,
   isLoading |-> TRUE]

(* ------------------------ goal routes: handlers ------------------------ *)

\* GET /api/goals: verifyToken, then getGoals up to Goal.find
GetGoalsBegin(s, h) ==
  LET req == [kind |-> "GET", headers |-> h]
      auth == verifyToken(h, users) IN
  IF ~auth.ok
  THEN Respond(s, req, errorHandler(auth.statusCode, auth.message))
  ELSE Await(s, req, auth.user, "Goal.find")

GetGoalsRequest(s) ==
  /\ Accepting(s)
  /\ \E h \in Headers : GetGoalsBegin(s, h)
  /\ UNCHANGED <<users, goals, nextGoalId, nextUserId, now, client>>

\* getGoals: Goal.find resolves, res.status(200).json(goals)
GetGoalsFind(s) ==
  /\ Awaiting(s, "GET", "Goal.find")
  /\ Respond(s, conn[s].req,
             [status |-> 200, goals |-> GoalFind(goals, conn[s].user)])
  /\ UNCHANGED <<users, goals, nextGoalId, nextUserId, now, client>>

\* POST /api/goals: verifyToken, then createGoal up to Goal.create
CreateGoalBegin(s, h, body) ==
  LET req == [kind |-> "POST", headers |-> h, body |-> body]
      auth == verifyToken(h, users) IN
  IF ~auth.ok
  THEN Respond(s, req, errorHandler(auth.statusCode, auth.message))
  ELSE IF createGoalTextMissing(body)
  THEN Respond(s, req, errorHandler(400, "Please add a text field."))
  ELSE Await(s, req, auth.user, "Goal.create")

CreateGoalRequest(s) ==
  /\ Accepting(s)
  /\ nextGoalId <= MaxGoals
  /\ \E h \in Headers, body \in PostBodies : CreateGoalBegin(s, h, body)
  /\ UNCHANGED <<users, goals, nextGoalId, nextUserId, now, client>>

\* createGoal: Goal.create validates and inserts; a ValidationError is
\* rethrown with status 400
CreateGoalCreate(s) ==
  /\ Awaiting(s, "POST", "Goal.create")
  /\ nextGoalId <= MaxGoals
  /\ LET goal == TimestampsOnCreate(
                   createGoalDoc(conn[s].req.body, conn[s].user, ObjectId(nextGoalId)),
                   now)
         invalid == GoalTextValidationError(goal.text) IN
       IF invalid # ""
       THEN /\ Respond(s, conn[s].req, errorHandler(400, invalid))
            /\ UNCHANGED <<goals, nextGoalId>>
       ELSE /\ goals' = goals \cup {goal}
            /\ nextGoalId' = nextGoalId + 1
            /\ Respond(s, conn[s].req, [status |-> 201, goal |-> goal])
  /\ UNCHANGED <<users, nextUserId, now, client>>

\* PUT /api/goals/:id: verifyToken, then updateGoal up to Goal.findById
UpdateGoalBegin(s, h, id, body) ==
  LET req == [kind |-> "PUT", headers |-> h, id |-> id, body |-> body]
      auth == verifyToken(h, users) IN
  IF ~auth.ok
  THEN Respond(s, req, errorHandler(auth.statusCode, auth.message))
  ELSE IF ~ObjectIdIsValid(id)
  THEN Respond(s, req, errorHandler(400, "Invalid goal id."))
  ELSE Await(s, req, auth.user, "Goal.findById")

UpdateGoalRequest(s) ==
  /\ Accepting(s)
  /\ \E h \in Headers, id \in ParamIds, body \in PutBodies :
       UpdateGoalBegin(s, h, id, body)
  /\ UNCHANGED <<users, goals, nextGoalId, nextUserId, now, client>>

\* updateGoal: Goal.findById resolves; the checks up to Goal.findByIdAndUpdate
UpdateGoalFindById(s) ==
  /\ Awaiting(s, "PUT", "Goal.findById")
  /\ LET req == conn[s].req
         goal == FindOne(goals, "_id", req.id) IN
       IF goal = Null
       THEN Respond(s, req, errorHandler(404, "Goal not found."))
       ELSE IF updateGoalNoFields(req.body)
       THEN Respond(s, req, errorHandler(400,
              "Please provide at least one field to update (text or completed)."))
       ELSE IF NotOwner(goal, conn[s].user)
       THEN Respond(s, req, errorHandler(403, "Not authorized to update this goal"))
       ELSE Await(s, req, conn[s].user, "Goal.findByIdAndUpdate")
  /\ UNCHANGED <<users, goals, nextGoalId, nextUserId, now, client>>

\* updateGoal: Goal.findByIdAndUpdate(id, updateData, {new, runValidators});
\* a ValidationError is not caught, so no status is staged for it; the
\* updated document is null when the goal is gone
UpdateGoalFindByIdAndUpdate(s) ==
  /\ Awaiting(s, "PUT", "Goal.findByIdAndUpdate")
  /\ LET req == conn[s].req
         update == updateData(req.body)
         invalid == IF Has(update, "text")
                    THEN GoalTextValidationError(update.text) ELSE ""
         goal == FindOne(goals, "_id", req.id)
         updated == ApplyUpdate(goal, TimestampsOnUpdate(update, now)) IN
       IF invalid # ""
       THEN /\ Respond(s, req, errorHandler(200, invalid))
            /\ goals' = goals
       ELSE IF goal = Null
       THEN /\ Respond(s, req, [status |-> 200, goal |-> Null])
            /\ goals' = goals
       ELSE /\ goals' = (goals \ {goal}) \cup {updated}
            /\ Respond(s, req, [status |-> 200, goal |-> updated])
  /\ UNCHANGED <<users, nextGoalId, nextUserId, now, client>>

\* DELETE /api/goals/:id: verifyToken, then deleteGoal up to Goal.findById
DeleteGoalBegin(s, h, id) ==
  LET req == [kind |-> "DELETE", headers |-> h, id |-> id]
      auth == verifyToken(h, users) IN
  IF ~auth.ok
  THEN Respond(s, req, errorHandler(auth.statusCode, auth.message))
  ELSE IF ~ObjectIdIsValid(id)
  THEN Respond(s, req, errorHandler(400, "Invalid goal id."))
  ELSE Await(s, req, auth.user, "Goal.findById")

DeleteGoalRequest(s) ==
  /\ Accepting(s)
  /\ \E h \in Headers, id \in ParamIds : DeleteGoalBegin(s, h, id)
  /\ UNCHANGED <<users, goals, nextGoalId, nextUserId, now, client>>

\* deleteGoal: Goal.findById resolves; the checks and goalData up to
\* goal.deleteOne
DeleteGoalFindById(s) ==
  /\ Awaiting(s, "DELETE", "Goal.findById")
  /\ LET req == conn[s].req
         goal == FindOne(goals, "_id", req.id) IN
       IF goal = Null
       THEN Respond(s, req, errorHandler(404, "Goal not found."))
       ELSE IF NotOwner(goal, conn[s].user)
       THEN Respond(s, req, errorHandler(403, "Not authorized to delete this goal"))
       ELSE /\ conn' = [conn EXCEPT ![s] =
                 [pc |-> "goal.deleteOne", req |-> req, user |-> conn[s].user,
                  goalData |-> goalData(goal)]]
            /\ last' = NoExchange
  /\ UNCHANGED <<users, goals, nextGoalId, nextUserId, now, client>>

\* deleteGoal: goal.deleteOne resolves, the response carries goalData
DeleteGoalDeleteOne(s) ==
  /\ Awaiting(s, "DELETE", "goal.deleteOne")
  /\ goals' = {g \in goals : g._id # conn[s].req.id}
  /\ Respond(s, conn[s].req,
             [status |-> 200, message |-> "Goal successfully deleted.",
              goal |-> conn[s].goalData])
  /\ UNCHANGED <<users, nextGoalId, nextUserId, now, client>>

\* getMe: 404 when the middleware left no req.user, else the user
getMe(user) ==
  IF user = Null
  THEN errorHandler(404, "User not found")
  ELSE [status |-> 200, user |-> user]

\* GET /api/users/me: verifyToken, then getMe
GetMeRequest(s) ==
  /\ Accepting(s)
  /\ \E h \in Headers :
       LET req == [kind |-> "ME", headers |-> h]
           auth == verifyToken(h, users) IN
       IF ~auth.ok
       THEN Respond(s, req, errorHandler(auth.statusCode, auth.message))
       ELSE Respond(s, req, getMe(auth.user))
  /\ UNCHANGED <<users, goals, nextGoalId, nextUserId, now, client>>

\* Date.now() advances by a millisecond
Tick ==
  /\ now < MaxTime
  /\ now' = now + 1
  /\ UNCHANGED <<users, goals, nextGoalId, nextUserId, client, conn, last>>

\* the client receives the response
ResponseReceived ==
  /\ last # NoExchange
  /\ last' = NoExchange
  /\ UNCHANGED <<users, goals, nextGoalId, nextUserId, now, client, conn>>

(* --------------------- the goal API, users registered ------------------ *)

\* the database after MaxUsers registrations, no goal yet
Init ==
  /\ users = {UserDoc(k, "Ann", Email(k), StrongPassword) : k \in 1..MaxUsers}
  /\ goals = {}
  /\ nextGoalId = 1
  /\ nextUserId = MaxUsers + 1
  /\ now = 0
  /\ client = AppNotLoaded(EmptyObject)
  /\ conn = <<Idle>>
  /\ last = NoExchange

Next ==
  \/ ResponseReceived
  \/ \E s \in Conns : GetGoalsRequest(s)
  \/ \E s \in Conns : GetGoalsFind(s)
  \/ \E s \in Conns : CreateGoalRequest(s)
  \/ \E s \in Conns : CreateGoalCreate(s)
  \/ \E s \in Conns : UpdateGoalRequest(s)
  \/ \E s \in Conns : UpdateGoalFindById(s)
  \/ \E s \in Conns : UpdateGoalFindByIdAndUpdate(s)
  \/ \E s \in Conns : DeleteGoalRequest(s)
  \/ \E s \in Conns : DeleteGoalFindById(s)
  \/ \E s \in Conns : DeleteGoalDeleteOne(s)
  \/ \E s \in Conns : GetMeRequest(s)

\* the goal API and the profile route, one request at a time, all within one
\* millisecond
Spec == Init /\ [][Next]_vars

NextClock ==
  \/ Next
  \/ Tick

\* the goal API and the profile route, one request at a time, as time passes
SpecClock == Init /\ [][NextClock]_vars

(* ----------------- the goal API, two requests at a time ---------------- *)

\* the database after MaxUsers registrations and the first user's first
\* goal; two connections
InitConcurrent ==
  /\ users = {UserDoc(k, "Ann", Email(k), StrongPassword) : k \in 1..MaxUsers}
  /\ goals = {TimestampsOnCreate(
                createGoalDoc([text |-> <<Run("a", 1)>>],
                              [_id |-> UserId(1)], ObjectId(1)), 0)}
  /\ nextGoalId = 2
  /\ nextUserId = MaxUsers + 1
  /\ now = 0
  /\ client = AppNotLoaded(EmptyObject)
  /\ conn = <<Idle, Idle>>
  /\ last = NoExchange

NextConcurrent ==
  \/ ResponseReceived
  \/ \E s \in Conns : UpdateGoalRequest(s)
  \/ \E s \in Conns : UpdateGoalFindById(s)
  \/ \E s \in Conns : UpdateGoalFindByIdAndUpdate(s)
  \/ \E s \in Conns : DeleteGoalRequest(s)
  \/ \E s \in Conns : DeleteGoalFindById(s)
  \/ \E s \in Conns : DeleteGoalDeleteOne(s)

\* updates and deletions of the stored goal, the handlers of two connections
\* interleaving at their database calls
SpecConcurrent == InitConcurrent /\ [][NextConcurrent]_vars

(* ------------------- errors thrown outside the controllers ------------ *)

\* express.json(): the parsed body, or the error that body-parser passes on.
\* The error carries its own status (err.status = 400); nothing is staged on
\* the response.  A payload that is no JSON text is a record with the field
\* raw.
expressJson(payload) ==
  IF Has(payload, "raw")
  THEN [ok |-> FALSE, status |-> 400,
        message |-> "Unexpected token i in JSON at position 0"]
  ELSE [ok |-> TRUE, body |-> payload]

\* a request with Content-Type application/json whose body express.json()
\* cannot parse: the error skips the routes and reaches errorHandler with the
\* response's status still 200
BodyParseFailed(s) ==
  /\ Accepting(s)
  /\ \E kind \in {"REGISTER", "LOGIN", "POST", "PUT"}, h \in Headers,
        payload \in {[raw |-> "invalid json"], [raw |-> "{text: "]} :
       LET parsed == expressJson(payload) IN
       /\ ~parsed.ok
       /\ Respond(s, [kind |-> kind, headers |-> h, body |-> payload],
                  errorHandler(200, parsed.message))
  /\ UNCHANGED <<users, goals, nextGoalId, nextUserId, now, client>>

\* notFound: a request that no route serves; 404 is staged and the error is
\* passed on
notFound(s) ==
  /\ Accepting(s)
  /\ \E url \in {"/api/users/profile", "/api/goal"} :
       Respond(s, [kind |-> "NOTFOUND", url |-> url],
               errorHandler(404, "Not Found - " \o url))
  /\ UNCHANGED <<users, goals, nextGoalId, nextUserId, now, client>>

\* the status codes of res.statusCode when an error reaches errorHandler:
\* the default 200 and the codes that handlers stage
StatusCodes == {200, 201, 400, 401, 403, 404, 409, 500}

ErrorMessages ==
  {"", "Goal not found.", "Invalid goal id.", "User already exists.",
   "Please add a text field.", "Not authorized, no token provided",
   "E11000 duplicate key error collection: users index: email_1",
   "Goal validation failed: text: Please add a text value"}

\* any middleware or handler stages a status (or none) and throws
ErrorThrown(s) ==
  /\ Accepting(s)
  /\ \E statusCode \in StatusCodes, message \in ErrorMessages :
       Respond(s, [kind |-> "THROW", statusCode |-> statusCode, message |-> message],
               errorHandler(statusCode, message))
  /\ UNCHANGED <<users, goals, nextGoalId, nextUserId, now, client>>

NextErrors ==
  \/ Next
  \/ \E s \in Conns : BodyParseFailed(s)
  \/ \E s \in Conns : notFound(s)
  \/ \E s \in Conns : ErrorThrown(s)

\* the goal API with the errors of the body parser, of unknown routes and of
\* any handler
SpecErrors == Init /\ [][NextErrors]_vars

\* a user record is deleted out of band (User.findByIdAndDelete); the goals
\* of the user stay
UserRemoved ==
  /\ \E u \in users : users' = users \ {u}
  /\ UNCHANGED <<goals, nextGoalId, nextUserId, now, client, conn, last>>

NextRemoval ==
  \/ Next
  \/ UserRemoved

\* the goal API and the profile route while user records are deleted
SpecRemoval == Init /\ [][NextRemoval]_vars

(* ---------------------------- user controller -------------------------- *)

Lowercase ==
  {"a", "b", "c", "d", "e", "f", "g", "h", "i", "j", "k", "l", "m",
   "n", "o", "p", "q", "r", "s", "t", "u", "v", "w", "x", "y", "z"}

Uppercase ==
  {"A", "B", "C", "D", "E", "F", "G", "H", "I", "J", "K", "L", "M",
   "N", "O", "P", "Q", "R", "S", "T", "U", "V", "W", "X", "Y", "Z"}

Digits == {"0", "1", "2", "3", "4", "5", "6", "7", "8", "9"}

\* the special characters of passwordRegex
Specials ==
  {"!", "@", "#", "$", "%", "^", "&", "*", "(", ")", "_", "+", "-", "=",
   "[", "]", "{", "}", ";", "'", ":", "\"", "\\", "|", ",", ".", "<", ">",
   "/", "?"}

\* passwordRegex: {8,}
PasswordMinLength == 8

\* validatePassword as mutated by dropping the character class that the
\* whole password must match.
validatePasswordLookaheadsOnly(password) ==
  /\ \E k \in 1..Len(password) : password[k] \in Lowercase
  /\ \E k \in 1..Len(password) : password[k] \in Uppercase
  /\ \E k \in 1..Len(password) : password[k] \in Digits
  /\ \E k \in 1..Len(password) : password[k] \in Specials
  /\ Len(password) >= PasswordMinLength

\* validatePassword(password): passwordRegex.test(password), a password being
\* a sequence of characters
validatePassword(password) ==
  /\ \E k \in 1..Len(password) : password[k] \in Lowercase
  /\ \E k \in 1..Len(password) : password[k] \in Uppercase
  /\ \E k \in 1..Len(password) : password[k] \in Digits
  /\ \E k \in 1..Len(password) : password[k] \in Specials
  /\ \A k \in 1..Len(password) :
       password[k] \in Lowercase \cup Uppercase \cup Digits \cup Specials
  /\ Len(password) >= PasswordMinLength

getPasswordErrorMessage ==
  "Password must be at least 8 characters long, contain 1 lowercase letter, 1 uppercase letter, 1 number, and 1 special character."

\* registerUser: a field is missing (or is the empty string)
registerUserFieldMissing(body) ==
  \/ ~Has(body, "name") \/ body.name = ""
  \/ ~Has(body, "password") \/ body.password = <<>>
  \/ ~Has(body, "email") \/ body.email = ""

\* registerUser's 201 body as mutated by returning the stored document.
registerUserCreatedWholeDoc(newUser) ==
  [status |-> 201, token |-> generateToken(newUser._id), user |-> newUser]

\* registerUser: the 201 body
registerUserCreated(newUser) ==
  [status |-> 201,
   token |-> generateToken(newUser._id),
   user |-> [_id |-> newUser._id, name |-> newUser.name, email |-> newUser.email]]

\* loginUser's 401 as mutated by naming the part that failed.
loginUserInvalidNamingPart(user) ==
  IF user = Null
  THEN errorHandler(401, "Invalid email")
  ELSE errorHandler(401, "Invalid password")

\* loginUser: the 401 thrown when no user has the email or the password does
\* not match
loginUserInvalid(user) == errorHandler(401, "Invalid email or password")

\* loginUser: the 200 body
loginUserOk(user) ==
  [status |-> 200,
   message |-> "User logged in successfully",
   token |-> generateToken(user._id),
   user |-> [_id |-> user._id, name |-> user.name, email |-> user.email]]

WeakPassword == <<"p", "a", "s", "s", "w", "o", "r", "d", "1">>

OtherPassword == <<"O", "t", "h", "e", "r", "9", "9", "#">>

\* passwords that miss one requirement each: seven characters, no lowercase
\* letter, no uppercase letter, no digit, no special character; and passwords
\* of all four classes that also hold a space or a tilde
OddPasswords ==
  {<<"S", "e", "c", "u", "r", "1", "!">>,
   <<"S", "E", "C", "U", "R", "E", "1", "!">>,
   <<"s", "e", "c", "u", "r", "e", "1", "!">>,
   <<"S", "e", "c", "u", "r", "e", "!", "!">>,
   <<"S", "e", "c", "u", "r", "e", "1", "2">>,
   <<"S", "e", "c", "u", "r", "e", " ", "1", "!">>,
   <<"S", "e", "c", "u", "r", "e", "1", "!", "~">>}

RegisterBodies ==
  {EmptyObject,
   [email |-> Email(1), password |-> StrongPassword],
   [name |-> "Ann", email |-> Email(1), password |-> WeakPassword],
   [name |-> "Bob", email |-> Email(1), password |-> OtherPassword]}
  \cup {[name |-> "Ann", email |-> Email(k), password |-> StrongPassword] :
          k \in 1..MaxUsers}
  \cup {[name |-> "Ann", email |-> Email(1), password |-> pw] : pw \in OddPasswords}

LoginBodies ==
  {[email |-> Email(1)],
   [email |-> "nobody@example.com", password |-> StrongPassword]}
  \cup {[email |-> Email(k), password |-> pw] :
          k \in 1..MaxUsers, pw \in {StrongPassword, OtherPassword}}

\* POST /api/users: registerUser up to User.findOne
RegisterRequest(s) ==
  /\ Accepting(s)
  /\ \E body \in RegisterBodies :
       LET req == [kind |-> "REGISTER", body |-> body] IN
       IF registerUserFieldMissing(body)
       THEN Respond(s, req, errorHandler(400, "Please add all fields."))
       ELSE IF ~validatePassword(body.password)
       THEN Respond(s, req, errorHandler(400, getPasswordErrorMessage))
       ELSE Await(s, req, Null, "User.findOne")
  /\ UNCHANGED <<users, goals, nextGoalId, nextUserId, now, client>>

\* registerUser: User.findOne({email}) resolves; the handler goes on to hash
\* the password and to await User.create
RegisterFindOne(s) ==
  /\ Awaiting(s, "REGISTER", "User.findOne")
  /\ IF FindOne(users, "email", conn[s].req.body.email) # Null
     THEN Respond(s, conn[s].req, errorHandler(400, "User already exists."))
     ELSE Await(s, conn[s].req, Null, "User.create")
  /\ UNCHANGED <<users, goals, nextGoalId, nextUserId, now, client>>

\* registerUser: User.create resolves.  The unique index on email refuses a
\* second document with the email; that error is no ValidationError, so it is
\* rethrown with no status staged.
RegisterCreate(s) ==
  /\ Awaiting(s, "REGISTER", "User.create")
  /\ LET body == conn[s].req.body
         newUser == UserDoc(nextUserId, body.name, body.email, body.password) IN
       IF \E u \in users : u.email = body.email
       THEN /\ Respond(s, conn[s].req,
                 errorHandler(200, "E11000 duplicate key error collection: users index: email_1"))
            /\ UNCHANGED <<users, nextUserId>>
       ELSE /\ users' = users \cup {newUser}
            /\ nextUserId' = nextUserId + 1
            /\ Respond(s, conn[s].req, registerUserCreated(newUser))
  /\ UNCHANGED <<goals, nextGoalId, now, client>>

\* POST /api/users/login: loginUser up to User.findOne
LoginRequest(s) ==
  /\ Accepting(s)
  /\ \E body \in LoginBodies :
       LET req == [kind |-> "LOGIN", body |-> body] IN
       IF ~Has(body, "email") \/ ~Has(body, "password")
       THEN Respond(s, req, errorHandler(400, "Please provide both email and password"))
       ELSE Await(s, req, Null, "User.findOne")
  /\ UNCHANGED <<users, goals, nextGoalId, nextUserId, now, client>>

\* loginUser: User.findOne({email}) resolves, then bcrypt.compare
LoginFindOne(s) ==
  /\ Awaiting(s, "LOGIN", "User.findOne")
  /\ LET body == conn[s].req.body
         user == FindOne(users, "email", body.email) IN
       IF user = Null \/ ~bcryptCompare(body.password, user.password)
       THEN Respond(s, conn[s].req, loginUserInvalid(user))
       ELSE Respond(s, conn[s].req, loginUserOk(user))
  /\ UNCHANGED <<users, goals, nextGoalId, nextUserId, now, client>>

(* --------------------------- Google registration ----------------------- *)

\* userSchema's paths; a document handed to User.create keeps these fields
\* only (strict mode), so a googleID is not stored
UserSchemaPaths == {"name", "password", "email"}

UserCast(doc) == [f \in (DOMAIN doc) \cap UserSchemaPaths |-> doc[f]]

\* userSchema's required validators: the message of the ValidationError, or
\* "" when the document passes
UserValidationError(doc) ==
  IF ~Has(doc, "name") THEN "User validation failed: name: Please insert a name"
  ELSE IF ~Has(doc, "password")
       THEN "User validation failed: password: Password is required"
       ELSE IF ~Has(doc, "email")
            THEN "User validation failed: email: Please insert an email"
            ELSE ""

\* the stored document: the cast fields and the _id
UserStored(doc, id) ==
  [f \in (DOMAIN doc) \cup {"_id"} |-> IF f = "_id" THEN id ELSE doc[f]]

\* client.verifyIdToken: the payload of an identity token that Google signed
\* for this client, or failure
verifyIdToken(idToken) ==
  IF Has(idToken, "sub")
  THEN [ok |-> TRUE, payload |-> idToken]
  ELSE [ok |-> FALSE]

\* User.findOne({$or: [{googleID}, {email}]})
GoogleFindExisting(coll, payload) ==
  IF \E u \in coll : (Has(u, "googleID") /\ u.googleID = payload.sub)
                       \/ u.email = payload.email
  THEN CHOOSE u \in coll : (Has(u, "googleID") /\ u.googleID = payload.sub)
                             \/ u.email = payload.email
  ELSE Null

IdTokens ==
  {[raw |-> "fake-google-token"],
   [sub |-> "google1", email |-> Email(1), name |-> "Ann"],
   [sub |-> "google2", email |-> "new@gmail.com", name |-> "New Google User"]}

GoogleBodies == {EmptyObject} \cup {[token |-> t] : t \in IdTokens}

\* POST /api/users/google-register: googleRegister up to client.verifyIdToken
GoogleRegisterRequest(s) ==
  /\ Accepting(s)
  /\ \E body \in GoogleBodies :
       LET req == [kind |-> "GOOGLE_REGISTER", body |-> body] IN
       IF ~Has(body, "token")
       THEN Respond(s, req, errorHandler(400, "Google token is required"))
       ELSE Await(s, req, Null, "client.verifyIdToken")
  /\ UNCHANGED <<users, goals, nextGoalId, nextUserId, now, client>>

\* googleRegister: client.verifyIdToken resolves or throws; the catch turns
\* its error into 401
GoogleRegisterVerifyIdToken(s) ==
  /\ Awaiting(s, "GOOGLE_REGISTER", "client.verifyIdToken")
  /\ IF ~verifyIdToken(conn[s].req.body.token).ok
     THEN Respond(s, conn[s].req, errorHandler(401, "Invalid Google token"))
     ELSE Await(s, conn[s].req, Null, "User.findOne")
  /\ UNCHANGED <<users, goals, nextGoalId, nextUserId, now, client>>

\* googleRegister: User.findOne resolves; "User already exists" is rethrown
\* by the catch with its 400
GoogleRegisterFindOne(s) ==
  /\ Awaiting(s, "GOOGLE_REGISTER", "User.findOne")
  /\ LET payload == verifyIdToken(conn[s].req.body.token).payload IN
       IF GoogleFindExisting(users, payload) # Null
       THEN Respond(s, conn[s].req, errorHandler(400, "User already exists"))
       ELSE Await(s, conn[s].req, Null, "User.create")
  /\ UNCHANGED <<users, goals, nextGoalId, nextUserId, now, client>>

\* googleRegister: User.create({name, email, googleID}) resolves or throws.
\* A ValidationError and a duplicate-key error are caught, and the catch
\* answers every error that is not one of its own with 401.
GoogleRegisterCreate(s) ==
  /\ Awaiting(s, "GOOGLE_REGISTER", "User.create")
  /\ LET payload == verifyIdToken(conn[s].req.body.token).payload
         doc == UserCast([name |-> payload.name, email |-> payload.email,
                          googleID |-> payload.sub])
         newUser == UserStored(doc, UserId(nextUserId)) IN
       IF UserValidationError(doc) # "" \/ \E u \in users : u.email = doc.email
       THEN /\ Respond(s, conn[s].req, errorHandler(401, "Invalid Google token"))
            /\ UNCHANGED <<users, nextUserId>>
       ELSE /\ users' = users \cup {newUser}
            /\ nextUserId' = nextUserId + 1
            /\ Respond(s, conn[s].req,
                 [status |-> 201,
                  token |-> generateToken(newUser._id),
                  user |-> [_id |-> newUser._id, name |-> newUser.name,
                            email |-> newUser.email]])
  /\ UNCHANGED <<goals, nextGoalId, now, client>>

(* -------------------- registration and password login ------------------ *)

\* the empty database, two connections
InitUsers ==
  /\ users = {}
  /\ goals = {}
  /\ nextGoalId = 1
  /\ nextUserId = 1
  /\ now = 0
  /\ client = AppNotLoaded(EmptyObject)
  /\ conn = <<Idle, Idle>>
  /\ last = NoExchange

NextUsers ==
  \/ ResponseReceived
  \/ \E s \in Conns : RegisterRequest(s)
  \/ \E s \in Conns : RegisterFindOne(s)
  \/ \E s \in Conns : RegisterCreate(s)
  \/ \E s \in Conns : LoginRequest(s)
  \/ \E s \in Conns : LoginFindOne(s)

\* registration and login, two requests at a time
SpecUsers == InitUsers /\ [][NextUsers]_vars

\* the empty database, one connection
InitUsersSeq ==
  /\ users = {}
  /\ goals = {}
  /\ nextGoalId = 1
  /\ nextUserId = 1
  /\ now = 0
  /\ client = AppNotLoaded(EmptyObject)
  /\ conn = <<Idle>>
  /\ last = NoExchange

\* registration and login, one request at a time
SpecUsersSeq == InitUsersSeq /\ [][NextUsers]_vars

NextGoogle ==
  \/ NextUsers
  \/ \E s \in Conns : GoogleRegisterRequest(s)
  \/ \E s \in Conns : GoogleRegisterVerifyIdToken(s)
  \/ \E s \in Conns : GoogleRegisterFindOne(s)
  \/ \E s \in Conns : GoogleRegisterCreate(s)

\* registration by password and by Google, and login, one request at a time
SpecGoogle == InitUsersSeq /\ [][NextGoogle]_vars

(* ------------------------------ server log ----------------------------- *)

\* A log entry is a record: its level (or "console" for console.log), its
\* fixed text, and the value it interpolates (a request body, a token, the
\* secret).  A field that sanitizeRequestBody has replaced by '[REDACTED]'
\* is [redacted |-> TRUE]; a field it has left alone carries its value.
sensitiveFields == {"password", "token", "jwt", "authorization", "secret", "key"}

sanitizeRequestBody(body) ==
  [field \in DOMAIN body |->
     IF field \in sensitiveFields /\ Truthy(body[field])
     THEN [redacted |-> TRUE]
     ELSE [redacted |-> FALSE, value |-> body[field]]]

\* generateToken's console.log
generateTokenLog ==
  [level |-> "console", text |-> "Generating token with secret:",
   secret |-> JWT_SECRET]

\* verifyToken's logger calls up to jwt.verify
verifyTokenLog(headers) ==
  IF ~Has(headers, "authorization") \/ headers.authorization.scheme # "Bearer"
  THEN {[level |-> "warn",
         text |-> "Authorization header missing or not using Bearer scheme"]}
  ELSE {[level |-> "debug", text |-> "Received token: ",
         token |-> headers.authorization.token]}

\* registerUser's and loginUser's logger.debug of the request body
requestBodyLog(body) ==
  [level |-> "debug", text |-> "Request body: ", body |-> sanitizeRequestBody(body)]

\* the entries that the handlers write while they serve an exchange
Log(exchange) ==
  IF exchange.req.kind = "REGISTER"
  THEN {requestBodyLog(exchange.req.body)}
       \cup (IF exchange.res.status = 201 THEN {generateTokenLog} ELSE {})
  ELSE IF exchange.req.kind = "LOGIN"
  THEN {requestBodyLog(exchange.req.body)}
       \cup (IF exchange.res.status = 200 THEN {generateTokenLog} ELSE {})
  ELSE IF exchange.req.kind = "ME"
  THEN verifyTokenLog(exchange.req.headers)
  ELSE {}

NextLogged ==
  \/ NextUsers
  \/ \E s \in Conns : GetMeRequest(s)

\* registration, login and the profile route
SpecLogged == InitUsers /\ [][NextLogged]_vars

(* ----------------------- client: login and session -------------------- *)

\* authStorage.setAuthData: userData is stored as JSON text
setAuthData(storage, token, userData) ==
  [k \in (DOMAIN storage) \cup {"authToken", "userData"} |->
     IF k = "authToken" THEN token
     ELSE IF k = "userData" THEN [json |-> userData]
     ELSE storage[k]]

\* authStorage.clearAuthData
clearAuthData(storage) ==
  [k \in (DOMAIN storage) \ {"authToken", "userData", "isAuthenticated"} |->
     storage[k]]

\* authStorage.getUserData: the parsed object, or null
getUserData(storage) ==
  IF Has(storage, "userData") THEN storage.userData.json ELSE Null

\* isTokenExpired as mutated by never finding a token expired.
isTokenExpiredNever(token) == FALSE

\* AuthProvider's isTokenExpired: payload.exp < Date.now() / 1000, and true
\* for a token whose payload cannot be decoded
isTokenExpired(token) ==
  IF Has(token, "exp") THEN token.expired ELSE TRUE

\* the special characters of the client's passwordRegex
ClientSpecials == {"@", "$", "!", "%", "*", "?", "&"}

\* the client's validatePassword(password)
validatePasswordClient(password) ==
  /\ \E k \in 1..Len(password) : password[k] \in Lowercase
  /\ \E k \in 1..Len(password) : password[k] \in Uppercase
  /\ \E k \in 1..Len(password) : password[k] \in Digits
  /\ \E k \in 1..Len(password) : password[k] \in ClientSpecials
  /\ \A k \in 1..Len(password) :
       password[k] \in Lowercase \cup Uppercase \cup Digits \cup ClientSpecials
  /\ Len(password) >= PasswordMinLength

\* Login page, handleSubmit: the fields of the user that the page reads from
\* the top level of response.data; a field that is not there is undefined
\* and is left out of the JSON text
LoginUserData(data) ==
  [f \in {"_id", "name", "email"} \cap (DOMAIN data) |-> data[f]]

\* Login page, handleSubmit after axios.post resolves with 200: setAuthData,
\* then the context's login(navigate).  The page sends a login only when its
\* own validation accepts the password.
LoginSucceeded ==
  /\ ~client.isLoading
  /\ last.req.kind = "LOGIN"
  /\ Has(last.req.body, "password")
  /\ validatePasswordClient(last.req.body.password)
  /\ last.res.status = 200
  /\ LET stored == setAuthData(client.storage, last.res.token, LoginUserData(last.res)) IN
       client' = [client EXCEPT !.storage = stored,
                                !.isAuthenticated = TRUE,
                                !.user = IF getUserData(stored) # Null
                                         THEN getUserData(stored) ELSE @]
  /\ last' = NoExchange
  /\ UNCHANGED <<users, goals, nextGoalId, nextUserId, now, conn>>

\* the page is loaded again: the state of AuthProvider is its initial state,
\* localStorage is kept
PageReload ==
  /\ ~client.isLoading
  /\ client' = AppNotLoaded(client.storage)
  /\ UNCHANGED <<users, goals, nextGoalId, nextUserId, now, conn, last>>

\* AuthProvider's effect on mount: the startup check
StartupCheck ==
  /\ client.isLoading
  /\ client' =
       IF Has(client.storage, "authToken") /\ ~isTokenExpired(client.storage.authToken)
       THEN [client EXCEPT !.isAuthenticated = TRUE,
                           !.user = IF getUserData(client.storage) # Null
                                    THEN getUserData(client.storage) ELSE @,
                           !.isLoading = FALSE]
       ELSE [client EXCEPT !.storage = clearAuthData(client.storage),
                           !.isAuthenticated = FALSE,
                           !.user = Null,
                           !.isLoading = FALSE]
  /\ UNCHANGED <<users, goals, nextGoalId, nextUserId, now, conn, last>>

\* AuthProvider's logout
Logout ==
  /\ ~client.isLoading
  /\ client' = [client EXCEPT !.storage = clearAuthData(client.storage),
                              !.isAuthenticated = FALSE,
                              !.user = Null]
  /\ UNCHANGED <<users, goals, nextGoalId, nextUserId, now, conn, last>>

\* the expiry of the stored token passes (expiresIn after it was issued)
StoredTokenExpires ==
  /\ Has(client.storage, "authToken")
  /\ ~client.storage.authToken.expired
  /\ client' = [client EXCEPT !.storage.authToken.expired = TRUE]
  /\ UNCHANGED <<users, goals, nextGoalId, nextUserId, now, conn, last>>

\* the empty database, and a browser whose localStorage is empty or holds
\* the key that earlier versions of the client wrote
InitClient ==
  /\ users = {}
  /\ goals = {}
  /\ nextGoalId = 1
  /\ nextUserId = 1
  /\ now = 0
  /\ client \in {AppNotLoaded(EmptyObject),
                  AppNotLoaded([isAuthenticated |-> "true"])}
  /\ conn = <<Idle>>
  /\ last = NoExchange

NextClient ==
  \/ NextUsers
  \/ LoginSucceeded
  \/ PageReload
  \/ StartupCheck
  \/ Logout
  \/ StoredTokenExpires

\* the client's session over registration and login
SpecClient == InitClient /\ [][NextClient]_vars

(* ------------------------ client: protected route ---------------------- *)

\* what a ProtectedRoute returns from a render
Spinner == "spinner"
NavigateToLogin == "Navigate to /login"
Children == "children"

\* ProtectedRoute, the variant that reads the stored token
ProtectedRoute(c) ==
  IF c.isLoading THEN Spinner
  ELSE IF ~Has(c.storage, "authToken") THEN NavigateToLogin
  ELSE Children

\* ProtectedRoute, the variant that delays its spinner: showSpinner is its
\* own state, false from the mount until its 500 ms timer has run
ProtectedRouteDelayedSpinner(c) ==
  IF c.showSpinner THEN Spinner
  ELSE IF ~c.isAuthenticated THEN NavigateToLogin
  ELSE Children

WithShowSpinner(c, showSpinner) ==
  [f \in DOMAIN c \cup {"showSpinner"} |->
     IF f = "showSpinner" THEN showSpinner ELSE c[f]]

\* the browser loads the application at the protected route: the initial
\* state of AuthProvider and of the ProtectedRoute, localStorage is kept
OpenDashboard ==
  /\ ~client.isLoading
  /\ client' = WithShowSpinner(AppNotLoaded(client.storage), FALSE)
  /\ UNCHANGED <<users, goals, nextGoalId, nextUserId, now, conn, last>>

\* the 500 ms timer that the effect started while isLoading runs
ShowSpinnerTimeout ==
  /\ client.isLoading
  /\ ~client.showSpinner
  /\ client' = [client EXCEPT !.showSpinner = TRUE]
  /\ UNCHANGED <<users, goals, nextGoalId, nextUserId, now, conn, last>>

\* the effect runs again when isLoading has become false
ShowSpinnerReset ==
  /\ ~client.isLoading
  /\ client.showSpinner
  /\ client' = [client EXCEPT !.showSpinner = FALSE]
  /\ UNCHANGED <<users, goals, nextGoalId, nextUserId, now, conn, last>>

InitGate ==
  /\ users = {}
  /\ goals = {}
  /\ nextGoalId = 1
  /\ nextUserId = 1
  /\ now = 0
  /\ client \in {WithShowSpinner(AppNotLoaded(EmptyObject), FALSE),
                  WithShowSpinner(AppNotLoaded([isAuthenticated |-> "true"]), FALSE)}
  /\ conn = <<Idle>>
  /\ last = NoExchange

NextGate ==
  \/ NextUsers
  \/ LoginSucceeded
  \/ OpenDashboard
  \/ StartupCheck
  \/ Logout
  \/ StoredTokenExpires
  \/ ShowSpinnerTimeout
  \/ ShowSpinnerReset

\* the login page, the session context and the protected route
SpecGate == InitGate /\ [][NextGate]_vars

(* ------------------------ client: notifications ------------------------ *)

\* The provider's state is the list `notifications`; it renders one Toast
\* per entry, and `toasts` holds, per rendered Toast, the instant at which
\* its pending setTimeout is due.
showNotificationDefaultDuration == 3000
NotificationMessages == {"Goal created successfully!", "Logged out successfully!"}
NotificationTypes == {"success", "error", "info"}
NotificationDurations == {1000, showNotificationDefaultDuration}

\* Toast's effect: it depends on [duration, onClose], and the provider hands
\* every Toast a new onClose closure on each render, so each render clears
\* the Toast's timer and starts a new one of the full duration.
ToastEffect(notification, time) == [due |-> time + notification.duration]

\* the provider's render of a list at an instant
NotificationProviderRender(list, time) ==
  [i \in 1..Len(list) |-> ToastEffect(list[i], time)]

\* removeNotification's filter
removeNotification(list, id) ==
  SelectSeq(list, LAMBDA notification : notification.id # id)

WithNotifications(c, list, time) ==
  [f \in DOMAIN c \cup {"notifications", "toasts"} |->
     IF f = "notifications" THEN list
     ELSE IF f = "toasts" THEN NotificationProviderRender(list, time)
     ELSE c[f]]

showNotification ==
  /\ Len(client.notifications) < MaxNotifications
  /\ \E message \in NotificationMessages, type \in NotificationTypes,
        duration \in NotificationDurations :
       LET id == ToString(now)
           newNotification == [id |-> id, message |-> message, type |-> type,
                               duration |-> duration]
       IN client' = WithNotifications(client,
                      Append(client.notifications, newNotification), now)
  /\ UNCHANGED <<users, goals, nextGoalId, nextUserId, now, conn, last>>

\* showNotification(message) as a page calls it, with the default type and
\* duration, on the client state c
Notified(c, message) ==
  WithNotifications(c,
    Append(c.notifications,
           [id |-> ToString(now), message |-> message, type |-> "success",
            duration |-> showNotificationDefaultDuration]),
    now)

\* the close button of the i-th Toast
ToastClose ==
  /\ \E i \in 1..Len(client.notifications) :
       client' = WithNotifications(client,
                   removeNotification(client.notifications,
                                      client.notifications[i].id), now)
  /\ UNCHANGED <<users, goals, nextGoalId, nextUserId, now, conn, last>>

\* the i-th Toast's setTimeout callback
ToastTimeout ==
  /\ \E i \in 1..Len(client.notifications) :
       /\ client.toasts[i].due <= now
       /\ client' = WithNotifications(client,
                      removeNotification(client.notifications,
                                         client.notifications[i].id), now)
  /\ UNCHANGED <<users, goals, nextGoalId, nextUserId, now, conn, last>>

\* the browser's clock; a timer that is due runs before the clock moves on
TimePasses ==
  /\ \E seconds \in 1..3 :
       /\ now + seconds * 1000 <= MaxSeconds * 1000
       /\ \A i \in 1..Len(client.toasts) :
            now + seconds * 1000 <= client.toasts[i].due
       /\ now' = now + seconds * 1000
  /\ UNCHANGED <<users, goals, nextGoalId, nextUserId, client, conn, last>>

InitNotifications ==
  /\ users = {}
  /\ goals = {}
  /\ nextGoalId = 1
  /\ nextUserId = 1
  /\ now = 0
  /\ client = WithNotifications(AppNotLoaded(EmptyObject), <<>>, 0)
  /\ conn = <<Idle>>
  /\ last = NoExchange

NextNotifications ==
  \/ showNotification
  \/ ToastClose
  \/ ToastTimeout
  \/ TimePasses

SpecNotifications == InitNotifications /\ [][NextNotifications]_vars

(* --------------------------- client: Dashboard ------------------------- *)

\* The Dashboard's state is the record `dashboard`: the list `goals`, the
\* flags and the ids of the goal being edited and being deleted (null, or
\* [id |-> the id]); `error` is null or [message |-> the text].  `calls`
\* holds, per connection, the handler that awaits the response of the
\* request it sent on it, with the `goals` of the render that created the
\* handler: the list its continuation computes the next list from.
NoCall == [handler |-> "none"]

DashboardFirstRender ==
  [goals |-> <<>>, isLoading |-> TRUE, error |-> Null, isCreating |-> FALSE,
   isUpdating |-> FALSE, editingGoalId |-> Null, deletingGoalId |-> Null]

WithDashboard(c) ==
  [f \in DOMAIN c \cup {"dashboard", "calls", "started"} |->
     IF f = "dashboard" THEN DashboardFirstRender
     ELSE IF f = "calls" THEN [s \in Conns |-> NoCall]
     ELSE IF f = "started" THEN 0
     ELSE c[f]]

\* goalsApi: getAuthHeaders
getAuthHeaders(storage) ==
  IF Has(storage, "authToken")
  THEN [authorization |-> [scheme |-> "Bearer", token |-> storage.authToken]]
  ELSE EmptyObject

\* the render throws on a list that holds null (goal.completed of null)
DashboardRenders == \A i \in 1..Len(client.dashboard.goals) : client.dashboard.goals[i] # Null

\* the effect on mount has run
DashboardEffectRan ==
  \/ ~client.dashboard.isLoading
  \/ \E s \in Conns : client.calls[s].handler = "fetchGoals"

\* the rows of the goals are on the page
DashboardRowsShown ==
  /\ DashboardRenders
  /\ DashboardEffectRan
  /\ ~client.dashboard.isLoading
  /\ client.dashboard.error = Null
  /\ Len(client.dashboard.goals) > 0

\* a connection for a request of the user's next action
DashboardMaySend(s) ==
  /\ Accepting(s)
  /\ client.calls[s] = NoCall
  /\ client.started < MaxCalls

\* the state after a handler has set its flags and sent its request on s
DashboardSent(s, handler, target, dashboard) ==
  client' = [client EXCEPT
               !.dashboard = dashboard,
               !.calls[s] = [handler |-> handler, target |-> target,
                             goals |-> client.dashboard.goals],
               !.started = IF handler = "fetchGoals" THEN @ ELSE @ + 1]

\* the texts the user types into the two forms
NewGoalTexts == {<<Run("a", 1)>>, <<Run(" ", 1), Run("b", 1)>>}
EditedTexts == {<<Run("c", 1), Run(" ", 1)>>}

\* useEffect on mount: fetchGoals up to goalsApi.getAllGoals
fetchGoals ==
  /\ client.dashboard.isLoading
  /\ ~DashboardEffectRan
  /\ \E s \in Conns :
       /\ Accepting(s)
       /\ client.calls[s] = NoCall
       /\ GetGoalsBegin(s, getAuthHeaders(client.storage))
       /\ DashboardSent(s, "fetchGoals", Null,
            [client.dashboard EXCEPT !.isLoading = TRUE, !.error = Null])
  /\ UNCHANGED <<users, goals, nextGoalId, nextUserId, now>>

\* the create form is submitted: handleCreateGoal up to goalsApi.createGoal
handleCreateGoal ==
  /\ DashboardRenders
  /\ DashboardEffectRan
  /\ ~client.dashboard.isCreating
  /\ nextGoalId <= MaxGoals
  /\ \E s \in Conns, newGoalText \in NewGoalTexts :
       /\ DashboardMaySend(s)
       /\ Trim(newGoalText) # <<>>
       /\ CreateGoalBegin(s, getAuthHeaders(client.storage),
                          [text |-> Trim(newGoalText)])
       /\ DashboardSent(s, "handleCreateGoal", Null,
            [client.dashboard EXCEPT !.isCreating = TRUE, !.error = Null])
  /\ UNCHANGED <<users, goals, nextGoalId, nextUserId, now>>

\* the Edit button of a row, and the Cancel button of the edit form
EditGoal ==
  /\ DashboardRowsShown
  /\ \E i \in 1..Len(client.dashboard.goals) :
       /\ client.dashboard.editingGoalId # [id |-> client.dashboard.goals[i]._id]
       /\ client' = [client EXCEPT !.dashboard.editingGoalId =
                                     [id |-> client.dashboard.goals[i]._id]]
  /\ UNCHANGED <<users, goals, nextGoalId, nextUserId, now, conn, last>>

handleCancelEdit ==
  /\ DashboardRowsShown
  /\ \E i \in 1..Len(client.dashboard.goals) :
       client.dashboard.editingGoalId = [id |-> client.dashboard.goals[i]._id]
  /\ client' = [client EXCEPT !.dashboard.editingGoalId = Null]
  /\ UNCHANGED <<users, goals, nextGoalId, nextUserId, now, conn, last>>

\* the edit form of a row is submitted: handleUpdateGoal up to
\* goalsApi.updateGoal
handleUpdateGoal ==
  /\ DashboardRowsShown
  /\ ~client.dashboard.isUpdating
  /\ \E s \in Conns, i \in 1..Len(client.dashboard.goals), editedText \in EditedTexts :
       LET goal == client.dashboard.goals[i] IN
       /\ client.dashboard.editingGoalId = [id |-> goal._id]
       /\ DashboardMaySend(s)
       /\ Trim(editedText) # <<>>
       /\ UpdateGoalBegin(s, getAuthHeaders(client.storage), goal._id,
                          [text |-> Trim(editedText)])
       /\ DashboardSent(s, "handleUpdateGoal", goal._id,
            [client.dashboard EXCEPT !.isUpdating = TRUE, !.error = Null])
  /\ UNCHANGED <<users, goals, nextGoalId, nextUserId, now>>

\* the checkbox of a row: handleToggleComplete up to goalsApi.updateGoal
handleToggleComplete ==
  /\ DashboardRowsShown
  /\ \E s \in Conns, i \in 1..Len(client.dashboard.goals) :
       LET goal == client.dashboard.goals[i] IN
       /\ client.dashboard.editingGoalId # [id |-> goal._id]
       /\ DashboardMaySend(s)
       /\ UpdateGoalBegin(s, getAuthHeaders(client.storage), goal._id,
                          [completed |-> ~goal.completed])
       /\ DashboardSent(s, "handleToggleComplete", goal._id,
            [client.dashboard EXCEPT !.error = Null])
  /\ UNCHANGED <<users, goals, nextGoalId, nextUserId, now>>

\* the Delete button of a row, confirmed: handleDeleteGoal up to
\* goalsApi.deleteGoal
handleDeleteGoal ==
  /\ DashboardRowsShown
  /\ \E s \in Conns, i \in 1..Len(client.dashboard.goals) :
       LET goal == client.dashboard.goals[i] IN
       /\ client.dashboard.editingGoalId # [id |-> goal._id]
       /\ client.dashboard.deletingGoalId # [id |-> goal._id]
       /\ DashboardMaySend(s)
       /\ DeleteGoalBegin(s, getAuthHeaders(client.storage), goal._id)
       /\ DashboardSent(s, "handleDeleteGoal", goal._id,
            [client.dashboard EXCEPT !.deletingGoalId = [id |-> goal._id],
                                     !.error = Null])
  /\ UNCHANGED <<users, goals, nextGoalId, nextUserId, now>>

\* Goal.find's result in the order of insertion
GoalIndex(goal) == CHOOSE k \in 1..(MaxGoals + 1) : ObjectId(k) = goal._id
InOrder(found) ==
  [i \in 1..Cardinality(found) |->
     CHOOSE goal \in found :
       Cardinality({g \in found : GoalIndex(g) <= GoalIndex(goal)}) = i]

\* goals.map(goal => goal._id === goalId ? updatedGoal : goal)
ReplaceGoal(list, goalId, updatedGoal) ==
  [i \in 1..Len(list) |-> IF list[i]._id = goalId THEN updatedGoal ELSE list[i]]

\* goals.filter(goal => goal._id !== goalId)
RemoveGoal(list, goalId) == SelectSeq(list, LAMBDA goal : goal._id # goalId)

\* the state of the Dashboard after the continuation of a handler: the
\* promise of axios resolves on a 2xx status and rejects otherwise
DashboardContinued(d, call, res) ==
  LET ok == res.status \in {200, 201}
      failed == [message |-> IF ok THEN "" ELSE res.message] IN
  IF call.handler = "fetchGoals"
  THEN IF ok THEN [d EXCEPT !.goals = InOrder(res.goals), !.isLoading = FALSE]
       ELSE [d EXCEPT !.error = failed, !.isLoading = FALSE]
  ELSE IF call.handler = "handleCreateGoal"
  THEN IF ok THEN [d EXCEPT !.goals = Append(call.goals, res.goal),
                            !.isCreating = FALSE]
       ELSE [d EXCEPT !.error = failed, !.isCreating = FALSE]
  ELSE IF call.handler = "handleUpdateGoal"
  THEN IF ok THEN [d EXCEPT !.goals = ReplaceGoal(call.goals, call.target, res.goal),
                            !.editingGoalId = Null, !.isUpdating = FALSE]
       ELSE [d EXCEPT !.error = failed, !.isUpdating = FALSE]
  ELSE IF call.handler = "handleToggleComplete"
  THEN IF ok THEN [d EXCEPT !.goals = ReplaceGoal(call.goals, call.target, res.goal)]
       ELSE [d EXCEPT !.error = failed]
  ELSE IF ok THEN [d EXCEPT !.goals = RemoveGoal(call.goals, call.target),
                            !.deletingGoalId = Null]
       ELSE [d EXCEPT !.error = failed, !.deletingGoalId = Null]

\* the message of the notification that the continuation of a handler shows
\* after a success
DashboardNotification(call, res) ==
  IF call.handler = "handleCreateGoal" THEN "Goal created successfully!"
  ELSE IF call.handler = "handleUpdateGoal" THEN "Goal updated successfully!"
  ELSE IF call.handler = "handleDeleteGoal" THEN "Goal deleted successfully!"
  ELSE IF call.goals[CHOOSE i \in 1..Len(call.goals) :
                       call.goals[i]._id = call.target].completed
  THEN "Goal marked as incomplete!"
  ELSE "Goal marked as completed!"

\* the response of a request arrives and its handler goes on; after the
\* render has thrown, the application is gone and its state is not set any
\* more
DashboardResponse ==
  /\ last # NoExchange
  /\ \E s \in Conns :
       /\ client.calls[s] # NoCall
       /\ conn[s].pc = "idle"
       /\ LET call == client.calls[s]
              received == [client EXCEPT !.calls[s] = NoCall]
              continued == [received EXCEPT !.dashboard =
                              DashboardContinued(@, call, last.res)] IN
            client' =
              IF ~DashboardRenders THEN received
              ELSE IF call.handler # "fetchGoals" /\ last.res.status \in {200, 201}
              THEN Notified(continued, DashboardNotification(call, last.res))
              ELSE continued
  /\ last' = NoExchange
  /\ UNCHANGED <<users, goals, nextGoalId, nextUserId, now, conn>>

\* the database after MaxUsers registrations; the first user has logged in
\* through the Login page and the Dashboard has rendered for the first time
InitDashboard ==
  /\ users = {UserDoc(k, "Ann", Email(k), StrongPassword) : k \in 1..MaxUsers}
  /\ goals = {}
  /\ nextGoalId = 1
  /\ nextUserId = MaxUsers + 1
  /\ now = 0
  /\ conn = <<Idle, Idle>>
  /\ last = NoExchange
  /\ LET token == generateToken(UserId(1))
         stored == setAuthData(EmptyObject, token,
                     LoginUserData([token |-> token])) IN
       client = WithNotifications(
                  WithDashboard([storage |-> stored, isAuthenticated |-> TRUE,
                                 user |-> getUserData(stored), isLoading |-> FALSE]),
                  <<>>, 0)

NextDashboard ==
  \/ fetchGoals
  \/ handleCreateGoal
  \/ EditGoal
  \/ handleCancelEdit
  \/ handleUpdateGoal
  \/ handleToggleComplete
  \/ handleDeleteGoal
  \/ DashboardResponse
  \/ \E s \in Conns : GetGoalsFind(s)
  \/ \E s \in Conns : CreateGoalCreate(s)
  \/ \E s \in Conns : UpdateGoalFindById(s)
  \/ \E s \in Conns : UpdateGoalFindByIdAndUpdate(s)
  \/ \E s \in Conns : DeleteGoalFindById(s)
  \/ \E s \in Conns : DeleteGoalDeleteOne(s)

\* the Dashboard of the first user and the goal API
SpecDashboard == InitDashboard /\ [][NextDashboard]_vars

(* ------------------------ vocabulary of the claims --------------------- *)

\* the request carries a Bearer token that the server signed for user u and
\* that has not expired
PresentsTokenOf(req, u) ==
  /\ Has(req.headers, "authorization")
  /\ req.headers.authorization.scheme = "Bearer"
  /\ Has(req.headers.authorization.token, "sig")
  /\ req.headers.authorization.token.sig = JWT_SECRET
  /\ ~req.headers.authorization.token.expired
  /\ req.headers.authorization.token.id = u._id

\* this step completes an exchange of the given kind
Completes(kind) ==
  /\ last = NoExchange
  /\ last'.req.kind = kind

\* the text consists of whitespace only (or is empty)
IsBlank(t) == \A k \in 1..Len(t) : t[k].ch = " "

\* r is t without its leading and trailing whitespace
IsStrippedOf(r, t) ==
  /\ r # <<>> => Head(r).ch # " " /\ r[Len(r)].ch # " "
  /\ \E i \in 0..Len(t) :
       /\ i + Len(r) <= Len(t)
       /\ SubSeq(t, i + 1, i + Len(r)) = r
       /\ \A k \in 1..i : t[k].ch = " "
       /\ \A k \in (i + Len(r) + 1)..Len(t) : t[k].ch = " "

(* -------------------------------- claims ------------------------------- *)

\* C1 (as stated): for a goal owned by user A, a PUT whose body carries text
\* or completed, and a DELETE, sent with a valid token of another user B, is
\* answered 403 and leaves the goal stored as it was.
C1_NonOwnerAnswered403 ==
  [][\A g \in goals : \A u \in users :
       (/\ Completes("PUT") \/ Completes("DELETE")
        /\ last'.req.id = g._id
        /\ PresentsTokenOf(last'.req, u)
        /\ u._id # g.user
        /\ last'.req.kind = "PUT" =>
             Has(last'.req.body, "text") \/ Has(last'.req.body, "completed"))
       => (last'.res.status = 403 /\ g \in goals')]_vars

\* C2: a GET /api/goals by an authenticated caller is answered with exactly
\* the stored goals whose owner is the caller.
C2_ListIsCallersGoals ==
  \A u \in users :
    (last.req.kind = "GET" /\ PresentsTokenOf(last.req, u))
    => /\ last.res.status = 200
       /\ last.res.goals = {g \in goals : g.user = u._id}

C2_Witness ==
  /\ last.req.kind = "GET"
  /\ last.res.status = 200
  /\ last.res.goals # {}
  /\ last.res.goals # goals
  /\ \E g \in goals : g.completed /\ g \notin last.res.goals

\* the credentials the middleware must refuse: no Authorization header, a
\* header that does not start with "Bearer ", an empty or garbage token, a
\* token signed with another secret, an expired token
BadCredentials(headers) ==
  \/ ~Has(headers, "authorization")
  \/ headers.authorization.scheme # "Bearer"
  \/ ~Has(headers.authorization.token, "sig")
  \/ headers.authorization.token.sig # JWT_SECRET
  \/ headers.authorization.token.expired

\* the messages of the model that contain "Not authorized"
ContainsNotAuthorized(message) ==
  message \in {"Not authorized, no token provided",
               "Not authorized, token invalid or expired",
               "Not authorized: user not found",
               "Not authorized to update this goal",
               "Not authorized to delete this goal"}

ValidRegistration(body) ==
  /\ DOMAIN body = {"name", "email", "password"}
  /\ body.name # ""
  /\ body.email # ""
  /\ validatePassword(body.password)

\* C4 (as stated): however two registrations with the same unused email
\* interleave, each is answered 201 or 400 "User already exists.", and one
\* user with that email is stored.
C4_DuplicateAnswered400 ==
  (last.req.kind = "REGISTER" /\ ValidRegistration(last.req.body))
  => /\ \/ last.res.status = 201
        \/ /\ last.res.status = 400
           /\ last.res.message = "User already exists."
     /\ Cardinality({u \in users : u.email = last.req.body.email}) = 1

\* C5: with one request at a time, a valid registration with an unused email
\* stores one user and is answered 201 with a token of that user and a user
\* object of _id, name and email only (no password, plain or hashed); a
\* registration with an email already stored is answered 400 "User already
\* exists." and stores nothing.
C5_RegisterThenDuplicate ==
  [][(Completes("REGISTER") /\ ValidRegistration(last'.req.body)) =>
       LET body == last'.req.body
           res == last'.res IN
       IF \E u \in users : u.email = body.email
       THEN /\ res.status = 400
            /\ res.message = "User already exists."
            /\ users' = users
       ELSE /\ res.status = 201
            /\ DOMAIN res = {"status", "token", "user"}
            /\ DOMAIN res.user = {"_id", "name", "email"}
            /\ res.user.name = body.name
            /\ res.user.email = body.email
            /\ jwtVerify(res.token, JWT_SECRET) = [ok |-> TRUE, id |-> res.user._id]
            /\ \E u \in users' \ users :
                 /\ users' = users \cup {u}
                 /\ u._id = res.user._id
                 /\ u.email = body.email]_vars

C5_Witness ==
  /\ last.req.kind = "REGISTER"
  /\ ValidRegistration(last.req.body)
  /\ last.res.status = 400
  /\ last.res.message = "User already exists."
  /\ \E u \in users : u.email = last.req.body.email /\ u.name # last.req.body.name

\* C6: a login with the email of an account and a wrong password, and a login
\* with an email of no account, are answered with one and the same response:
\* 401 "Invalid email or password".
C6_LoginFailuresIdentical ==
  (/\ last.req.kind = "LOGIN"
   /\ Has(last.req.body, "email")
   /\ Has(last.req.body, "password")
   /\ \A u \in users :
        u.email = last.req.body.email
          => u.password # bcryptHash(last.req.body.password))
  => last.res = [status |-> 401, message |-> "Invalid email or password"]

C6_Witness ==
  /\ last.req.kind = "LOGIN"
  /\ Has(last.req.body, "password")
  /\ \E u \in users :
       /\ u.email = last.req.body.email
       /\ u.password # bcryptHash(last.req.body.password)
  /\ last.res.status = 401

\* C7: POST /api/goals stores the new goal with the caller as its owner,
\* whatever the body holds.
C7_CreatedGoalOwnedByCaller ==
  [][Completes("POST") =>
       \A u \in users : PresentsTokenOf(last'.req, u) =>
         /\ last'.res.status = 201 => goals' \ goals = {last'.res.goal}
         /\ \A g \in goals' \ goals : g.user = u._id]_vars

C7_Witness ==
  /\ last.req.kind = "POST"
  /\ last.res.status = 201
  /\ Has(last.req.body, "user")
  /\ last.req.body.user # last.res.goal.user
  /\ last.res.goal \in goals

\* C8: a goal created from a body with only a text is stored with the text
\* stripped of surrounding whitespace and completed = FALSE; a POST whose
\* text is missing or blank is answered 400 "Please add a text field." and
\* stores nothing.
C8_CreateTrimsAndDefaults ==
  [][(Completes("POST") /\ \E u \in users : PresentsTokenOf(last'.req, u)) =>
       LET body == last'.req.body IN
       /\ (DOMAIN body = {"text"} /\ last'.res.status = 201)
            => \E g \in goals' \ goals :
                 /\ goals' = goals \cup {g}
                 /\ g = last'.res.goal
                 /\ IsStrippedOf(g.text, body.text)
                 /\ g.completed = FALSE
       /\ (~Has(body, "text") \/ IsBlank(body.text))
            => /\ last'.res.status = 400
               /\ last'.res.message = "Please add a text field."
               /\ goals' = goals]_vars

C8_Witness ==
  /\ last.req.kind = "POST"
  /\ last.res.status = 201
  /\ DOMAIN last.req.body = {"text"}
  /\ last.req.body.text # last.res.goal.text
  /\ last.res.goal \in goals

\* C9: a PUT by the goal's owner whose body holds neither text nor
\* completed is answered 400 and leaves the stored goals unchanged.
C9_EmptyUpdateRejected ==
  [][\A g \in goals : \A u \in users :
       (/\ Completes("PUT")
        /\ last'.req.id = g._id
        /\ PresentsTokenOf(last'.req, u)
        /\ u._id = g.user
        /\ ~Has(last'.req.body, "text")
        /\ ~Has(last'.req.body, "completed"))
       => (last'.res.status = 400 /\ goals' = goals)]_vars

C9_Witness ==
  /\ last.req.kind = "PUT"
  /\ last.res.status = 400
  /\ DOMAIN last.req.body = {"user"}
  /\ \E g \in goals : \E u \in users :
       g._id = last.req.id /\ g.user = u._id /\ PresentsTokenOf(last.req, u)

\* C10: an update that supplies completed and no text leaves the goal's text
\* as it was, an update that supplies text and no completed leaves completed
\* as it was, and no step changes the owner of a stored goal.
C10_UpdateFrame ==
  [][\A g \in goals : \A h \in goals' :
       h._id = g._id =>
         /\ h.user = g.user
         /\ (/\ Completes("PUT")
             /\ Has(last'.req.body, "completed")
             /\ ~Has(last'.req.body, "text")) => h.text = g.text
         /\ (/\ Completes("PUT")
             /\ Has(last'.req.body, "text")
             /\ ~Has(last'.req.body, "completed")) => h.completed = g.completed]_vars

C10_Witness ==
  /\ last.req.kind = "PUT"
  /\ last.res.status = 200
  /\ Has(last.req.body, "user")
  /\ last.res.goal \in goals
  /\ last.res.goal.user # last.req.body.user
  /\ last.res.goal.completed

\* the document that the owner's PUT with body {completed: c} stores for
\* `goal` at time t
PutCompleted(goal, c, t) ==
  ApplyUpdate(goal, TimestampsOnUpdate(updateData([completed |-> c]), t))

\* the step completes a PUT of body {completed: ...} sent by the owner of the
\* stored goal g
OwnerPutsCompleted(g) ==
  /\ Completes("PUT")
  /\ last'.req.id = g._id
  /\ DOMAIN last'.req.body = {"completed"}
  /\ \E u \in users : PresentsTokenOf(last'.req, u) /\ u._id = g.user

\* C11 (as stated): the owner's PUT {completed: true} followed by the PUT
\* {completed: false} restores the goal's original completed value and leaves
\* text and createdAt unchanged, and updatedAt changes on each of the two
\* writes.
C11_RoundTripRestoresOriginal ==
  [][\A g \in goals :
       (OwnerPutsCompleted(g) /\ last'.req.body.completed) =>
         LET h == last'.res.goal IN
         /\ last'.res.status = 200
         /\ h.updatedAt # g.updatedAt
         /\ \A t \in now..MaxTime :
              LET k == PutCompleted(h, FALSE, t) IN
              /\ k.completed = g.completed
              /\ k.text = g.text
              /\ k.createdAt = g.createdAt
              /\ k.updatedAt # h.updatedAt]_vars

\* C11 (amended): the owner's PUT {completed: c} is answered 200 and stores
\* the goal with completed = c, text and createdAt as they were and updatedAt
\* the time of the write, which is never earlier than the previous value; so
\* PUT {completed: true} followed by PUT {completed: false} leaves completed
\* = false, whatever it was, text and createdAt as they were, and updatedAt
\* the time of the second write.
C11_RoundTripLeavesFalse ==
  [][\A g \in goals :
       OwnerPutsCompleted(g) =>
         LET h == PutCompleted(g, last'.req.body.completed, now) IN
         /\ last'.res = [status |-> 200, goal |-> h]
         /\ goals' = (goals \ {g}) \cup {h}
         /\ h.completed = last'.req.body.completed
         /\ h.text = g.text
         /\ h.createdAt = g.createdAt
         /\ h.updatedAt = now
         /\ h.updatedAt >= g.updatedAt
         /\ last'.req.body.completed =>
              \A t \in now..MaxTime :
                LET k == PutCompleted(h, FALSE, t) IN
                /\ k.completed = FALSE
                /\ k.text = g.text
                /\ k.createdAt = g.createdAt
                /\ k.updatedAt = t]_vars

C11_Witness ==
  /\ last.req.kind = "PUT"
  /\ last.req.body = [completed |-> FALSE]
  /\ last.res.status = 200
  /\ last.res.goal \in goals
  /\ last.res.goal.createdAt = 0
  /\ last.res.goal.updatedAt = MaxTime
  /\ MaxTime >= 2

\* the step completes a DELETE sent with a valid token of user u
DeleteBy(u) ==
  /\ Completes("DELETE")
  /\ PresentsTokenOf(last'.req, u)

\* the id was handed out to a goal that is stored no more
Deleted(id) ==
  /\ \E k \in 1..(nextGoalId - 1) : id = ObjectId(k)
  /\ \A g \in goals : g._id # id

\* the fields of the goal that are common to the stored document and to the
\* response of DELETE
ContentOf(g) == [f \in {"_id", "text", "completed", "user"} |-> g[f]]

\* C12 (as stated): DELETE of an existing goal by its owner returns the goal
\* as it was immediately before deletion.
C12_DeleteReturnsGoal ==
  [][\A g \in goals : \A u \in users :
       (DeleteBy(u) /\ last'.req.id = g._id /\ u._id = g.user)
       => (last'.res.status = 200 /\ last'.res.goal = g)]_vars

\* C12 (amended): DELETE of an existing goal by its owner removes it and
\* returns its _id, text, completed and user as they were immediately before
\* deletion (and neither createdAt nor updatedAt); a deleted goal stays
\* deleted and no later GET /api/goals lists it; DELETE with a well-formed id
\* of no existing goal is answered 404 and DELETE with a malformed id is
\* answered 400, in both cases changing no stored goal.
C12_DeleteReturnsContent ==
  [][/\ \A g \in goals : \A u \in users :
          (DeleteBy(u) /\ last'.req.id = g._id /\ u._id = g.user)
          => /\ last'.res.status = 200
             /\ last'.res.goal = ContentOf(g)
             /\ goals' = goals \ {g}
             /\ Deleted(g._id)'
     /\ \A id \in ParamIds :
          Deleted(id) =>
            /\ Deleted(id)'
            /\ (Completes("GET") /\ last'.res.status = 200)
                 => \A g \in last'.res.goals : g._id # id
     /\ \A u \in users :
          (DeleteBy(u) /\ \A g \in goals : g._id # last'.req.id)
          => /\ last'.res.status = IF ObjectIdIsValid(last'.req.id) THEN 404 ELSE 400
             /\ goals' = goals]_vars

C12_Witness ==
  /\ last.req.kind = "GET"
  /\ last.res.status = 200
  /\ last.res.goals # {}
  /\ \E id \in ParamIds, g \in last.res.goals :
       Deleted(id) /\ g.user = "u1" /\ g.completed

\* the token was issued by the server to a registered user, is signed with
\* the server's secret and has not expired
IssuedToken(token) ==
  /\ Has(token, "sig")
  /\ token.sig = JWT_SECRET
  /\ ~token.expired
  /\ \E k \in 1..(nextUserId - 1) : token.id = UserId(k)

\* C13 (as stated): GET /api/users/me with a validly signed, unexpired token
\* whose user record has since been deleted is answered 404 "User not found".
C13_DeletedUserAnswered404 ==
  [][(/\ Completes("ME")
      /\ Has(last'.req.headers, "authorization")
      /\ last'.req.headers.authorization.scheme = "Bearer"
      /\ IssuedToken(last'.req.headers.authorization.token)
      /\ \A u \in users : u._id # last'.req.headers.authorization.token.id)
     => /\ last'.res.status = 404
        /\ last'.res.message = "User not found"]_vars

\* C14 (as stated): every token issued by password registration or password
\* login expires 30 days after it is issued: exp - iat = 2,592,000 seconds.
C14_TokenLifetime30Days ==
  (/\ last.req.kind \in {"REGISTER", "LOGIN"}
   /\ Has(last.res, "token"))
  => last.res.token.exp - last.res.token.iat = 30 * 24 * 60 * 60

\* the characters of a password
Chars(password) == {password[k] : k \in 1..Len(password)}

\* at least 8 characters, among them a lowercase letter, an uppercase letter,
\* a digit and a character of the accepted special-character set
HasLengthAndFourClasses(password) ==
  /\ Len(password) >= 8
  /\ Chars(password) \cap Lowercase # {}
  /\ Chars(password) \cap Uppercase # {}
  /\ Chars(password) \cap Digits # {}
  /\ Chars(password) \cap Specials # {}

\* the registration was refused for its password
PasswordRefused(exchange) ==
  /\ exchange.res.status = 400
  /\ exchange.res.message = getPasswordErrorMessage

\* a registration with all three fields has been answered
RegistrationAnswered ==
  /\ last.req.kind = "REGISTER"
  /\ ~registerUserFieldMissing(last.req.body)

\* C15 (as stated): the server accepts a password if and only if it has at
\* least 8 characters and holds a lowercase letter, an uppercase letter, a
\* digit and an accepted special character.
C15_AcceptedIffFourClasses ==
  RegistrationAnswered =>
    (~PasswordRefused(last) <=> HasLengthAndFourClasses(last.req.body.password))

\* C15 (amended): the server accepts a password if and only if it has at
\* least 8 characters, holds a lowercase letter, an uppercase letter, a digit
\* and an accepted special character, and holds no character that is neither
\* a letter a-z or A-Z, a digit nor an accepted special character.
C15_AcceptedIffFourClassesOnly ==
  RegistrationAnswered =>
    (~PasswordRefused(last) <=>
       /\ HasLengthAndFourClasses(last.req.body.password)
       /\ Chars(last.req.body.password)
            \subseteq (Lowercase \cup Uppercase \cup Digits \cup Specials))

C15_Witness ==
  /\ RegistrationAnswered
  /\ PasswordRefused(last)
  /\ HasLengthAndFourClasses(last.req.body.password)
  /\ "~" \in Chars(last.req.body.password)
  /\ users # {}

\* C16: an error that reaches errorHandler is answered with the status
\* staged on the response before it was thrown, or with 500 when none was
\* staged (the response's status is still the default 200), and with a body
\* that carries the error's message; so an unknown route is answered 404
\* "Not Found - <url>".
C16_StagedStatusOr500 ==
  /\ last.req.kind = "THROW" =>
       /\ last.res.status =
            IF last.req.statusCode = 200 THEN 500 ELSE last.req.statusCode
       /\ last.res.message = last.req.message
  /\ last.req.kind = "NOTFOUND" =>
       /\ last.res.status = 404
       /\ last.res.message = "Not Found - " \o last.req.url

C16_Witness ==
  /\ last.req.kind = "THROW"
  /\ last.req.statusCode = 200
  /\ last.res.status = 500
  /\ last.res.message = "E11000 duplicate key error collection: users index: email_1"
  /\ goals # {}

\* C17 (as stated): a registration or goal-creation request whose body is no
\* parseable JSON is answered 400 with a body that has a message.
C17_MalformedBodyAnswered400 ==
  (/\ last.req.kind \in {"REGISTER", "POST"}
   /\ ~expressJson(last.req.body).ok)
  => /\ last.res.status = 400
     /\ Has(last.res, "message")

\* C18 (as stated): a Google registration with a verified identity token is
\* answered 400 "User already exists" and creates no user when a user with
\* the token's Google subject or email exists; otherwise it creates exactly
\* one user holding the token's name, email and Google subject, and no
\* password, and is answered 201 with a bearer token.
C18_GoogleRegisterCreatesUser ==
  [][(Completes("GOOGLE_REGISTER") /\ Has(last'.req.body, "token")
      /\ verifyIdToken(last'.req.body.token).ok) =>
       LET payload == verifyIdToken(last'.req.body.token).payload
           res == last'.res IN
       IF \E u \in users : \/ u.email = payload.email
                            \/ (Has(u, "googleID") /\ u.googleID = payload.sub)
       THEN /\ res.status = 400
            /\ res.message = "User already exists"
            /\ users' = users
       ELSE /\ res.status = 201
            /\ Has(res, "token")
            /\ \E u \in users' \ users :
                 /\ users' = users \cup {u}
                 /\ u.name = payload.name
                 /\ u.email = payload.email
                 /\ Has(u, "googleID") /\ u.googleID = payload.sub
                 /\ ~Has(u, "password")]_vars

\* none of the keys authToken, userData and isAuthenticated is in storage
SessionKeysAbsent(storage) ==
  (DOMAIN storage) \cap {"authToken", "userData", "isAuthenticated"} = {}

\* C19 (as stated): after a successful login the startup check, run against
\* the persisted storage, yields isAuthenticated = TRUE without a network
\* call; after logout the keys authToken, userData and isAuthenticated are
\* absent and the startup check yields isAuthenticated = FALSE.
C19_SessionSurvivesReload ==
  [][/\ (StartupCheck /\ Has(client.storage, "authToken"))
          => /\ client'.isAuthenticated
             /\ UNCHANGED <<conn, last>>
     /\ Logout => SessionKeysAbsent(client'.storage)
     /\ (StartupCheck /\ ~Has(client.storage, "authToken"))
          => /\ ~client'.isAuthenticated
             /\ SessionKeysAbsent(client'.storage)]_vars

\* C19 (amended): after a successful login the startup check, run against
\* the persisted storage while the stored token has not expired, yields
\* isAuthenticated = TRUE without a network call and leaves the storage as it
\* is; run after the token has expired, or after logout, it yields
\* isAuthenticated = FALSE with the keys authToken, userData and
\* isAuthenticated absent; logout removes the three keys.
C19_SessionSurvivesReloadUntilExpiry ==
  [][/\ StartupCheck =>
          /\ UNCHANGED <<conn, last>>
          /\ ~client'.isLoading
          /\ IF Has(client.storage, "authToken") /\ ~client.storage.authToken.expired
             THEN /\ client'.isAuthenticated
                  /\ client'.storage = client.storage
             ELSE /\ ~client'.isAuthenticated
                  /\ SessionKeysAbsent(client'.storage)
     /\ Logout =>
          /\ ~client'.isAuthenticated
          /\ SessionKeysAbsent(client'.storage)
     /\ LoginSucceeded =>
          /\ client'.isAuthenticated
          /\ client'.storage.authToken = last.res.token
          /\ ~client'.storage.authToken.expired]_vars

C19_Witness ==
  /\ client.isLoading
  /\ Has(client.storage, "authToken")
  /\ Has(client.storage, "userData")
  /\ jwtVerify(client.storage.authToken, JWT_SECRET).ok
  /\ \E u \in users : u._id = client.storage.authToken.id

\* C20 (as stated): an owner's PUT whose text is longer than 1000 characters,
\* or is empty after trimming, is answered 400 and leaves the stored goal
\* unchanged.
C20_BadTextUpdateAnswered400 ==
  [][\A g \in goals : \A u \in users :
       (/\ Completes("PUT")
        /\ last'.req.id = g._id
        /\ PresentsTokenOf(last'.req, u)
        /\ u._id = g.user
        /\ Has(last'.req.body, "text")
        /\ TextLen(last'.req.body.text) > 1000 \/ IsBlank(last'.req.body.text))
       => (last'.res.status = 400 /\ g \in goals')]_vars


\* the instant a notification was shown: its id is that instant's Date.now()
Instants == {seconds * 1000 : seconds \in 0..MaxSeconds}
ShownAt(notification) == CHOOSE t \in Instants : ToString(t) = notification.id

\* C21: a notification is never still in the list after its own duration has
\* elapsed since it was shown, whatever other notifications were shown or
\* removed in the meantime (a timer that is due runs before the clock moves).
C21_RemovedAfterOwnDuration ==
  (Has(client, "notifications")) =>
    \A i \in 1..Len(client.notifications) :
      now <= ShownAt(client.notifications[i]) + client.notifications[i].duration

\* C29: the ids in the list are pairwise different, and closing or expiring
\* one Toast removes exactly one notification.
C29_IdsDistinct ==
  [][/\ \A i, j \in 1..Len(client'.notifications) :
          i # j => client'.notifications[i].id # client'.notifications[j].id
     /\ (ToastClose \/ ToastTimeout) =>
          Len(client'.notifications) = Len(client.notifications) - 1]_vars


\* C24: a PUT that names an existing goal and carries a valid token of a user
\* who is not the goal's owner is answered 403 and leaves the goal stored as
\* it was, whatever its body is (a body without text and completed included).
C24_NonOwnerPutAnswered403WhateverBody ==
  [][\A g \in goals : \A u \in users :
       (/\ Completes("PUT")
        /\ last'.req.id = g._id
        /\ PresentsTokenOf(last'.req, u)
        /\ u._id # g.user)
       => (last'.res.status = 403 /\ goals' = goals)]_vars


\* C28: the client's validatePassword gives a password the verdict that the
\* server's validatePassword gives it: a registration is refused by the server
\* for its password exactly when the client's form refuses the password.
C28_ClientAndServerSameVerdict ==
  RegistrationAnswered =>
    (validatePasswordClient(last.req.body.password) <=> ~PasswordRefused(last))


\* the object carries the _id, name and email of the account
CarriesAccount(userData, account) ==
  \A f \in {"_id", "name", "email"} :
    Has(userData, f) /\ userData[f] = account[f]

\* C27: when a login through the client has succeeded, the user object in the
\* client's storage and the user of the session context carry the _id, name
\* and email of the account named by the server's login response.
C27_StoredUserIsLoggedInAccount ==
  [][LoginSucceeded =>
       /\ CarriesAccount(getUserData(client'.storage), last.res.user)
       /\ CarriesAccount(client'.user, last.res.user)]_vars


\* C26: a ProtectedRoute does not return the redirect to /login while the
\* session context is loading; once loading has finished it returns the
\* redirect exactly when no session is present, and the page only when one is.
C26_GateFollowsSession ==
  Has(client, "showSpinner") =>
    \A rendered \in {ProtectedRoute(client), ProtectedRouteDelayedSpinner(client)} :
      /\ client.isLoading => rendered # NavigateToLogin
      /\ ~client.isLoading =>
           /\ rendered = NavigateToLogin <=> ~client.isAuthenticated
           /\ rendered = Children => client.isAuthenticated


\* C23: no entry that the handlers write while they serve a request carries
\* the password of the request body unredacted, a token that the server
\* accepts as a bearer token, or the signing secret.
C23_LogHoldsNoSecret ==
  \A entry \in Log(last) :
    /\ Has(entry, "body") /\ Has(entry.body, "password")
         /\ Truthy(last.req.body.password)
       => entry.body.password.redacted
    /\ Has(entry, "token") => ~jwtVerify(entry.token, JWT_SECRET).ok
    /\ Has(entry, "secret") => entry.secret # JWT_SECRET


\* C30: a PUT that is answered 200 carries the updated goal in its body, not
\* null, also when a DELETE of the same goal is served at the same time.
C30_UpdateAnswered200WithGoal ==
  (last.req.kind = "PUT" /\ last.res.status = 200)
  => (/\ last.res.goal # Null
      /\ last.res.goal \in goals)


\* C22: no two requests that the same control started for the same target are
\* in flight at a time: the control is disabled until the first has resolved.
C22_OneRequestPerControl ==
  Has(client, "calls") =>
    \A s, t \in Conns :
      (s # t /\ client.calls[s] # NoCall /\ client.calls[t] # NoCall)
      => ~(/\ client.calls[s].handler = client.calls[t].handler
           /\ client.calls[s].target = client.calls[t].target)

\* C25: when no response is outstanding, the list that the Dashboard shows
\* holds the stored goals of the user, each once, and nothing else.
C25_ListEqualsServerList ==
  (/\ Has(client, "calls")
   /\ \A s \in Conns : client.calls[s] = NoCall
   /\ last = NoExchange
   /\ DashboardEffectRan
   /\ DashboardRenders
   /\ client.dashboard.error = Null)
  => /\ {client.dashboard.goals[i] : i \in 1..Len(client.dashboard.goals)}
          = GoalFind(goals, [_id |-> UserId(1)])
     /\ Len(client.dashboard.goals) = Cardinality(GoalFind(goals, [_id |-> UserId(1)]))

====
